---- MODULE Spec2Model ----
(***************************************************************************)
(* Model of SwipImgToVideo (src/src/swiping_img/mod.rs): the BigImgBuilder *)
(* configuration, BigImg::new, the window partition `divide`, the frame    *)
(* composer `combain_chunk`, the two segment generators and the `combain`  *)
(* pipeline with its working directory.                                    *)
(*                                                                         *)
(* A chunk is represented by its position 1..nchunks in the input slice.   *)
(* u32 quantities that the code can wrap (text_down_h, adjust_len,         *)
(* run_seconds) are kept at their width as a pair <<hi, lo>> of 16-bit     *)
(* halves, value hi * 2^16 + lo.                                           *)
(***************************************************************************)
EXTENDS Integers, Sequences, FiniteSets, TLC

VARIABLES
    overflow_checks,  \* build profile: TRUE = arithmetic overflow panics (debug), FALSE = wraps (release)
    font_ok,          \* environment: the font file can be read and parsed
    nchunks,          \* chunks.len() of the slice handed to the constructor
    pc,               \* position of the program
    builder,          \* the BigImgBuilder value (NoValue before construction)
    req_step,         \* builder.step at the moment build() was entered
    build_ret,        \* what build() returned: NoValue, or [kind, msg]
    new_ret,          \* what BigImg::new did: NoValue, or [kind, msg]
    img,              \* the BigImg value (NoValue while none exists)
    windows,          \* combain: `chunks`, the result of divide()
    results,          \* combain: `results`, the clip paths pushed so far
    index,            \* combain: loop index of the mid-segment loop
    files,            \* names of the files in the working directory
    manifest,         \* content of list.txt (sequence of lines), NoValue if not written
    log,              \* external effects performed so far, in order
    dir0,             \* content of the working directory when combain was entered
    save_name,        \* combain: the `save_name` argument
    ret               \* what combain / the direct combain_chunk call returned

vars == <<overflow_checks, font_ok, nchunks, pc, builder, req_step, build_ret, new_ret,
          img, windows, results, index, files, manifest, log, dir0, save_name, ret>>

NoValue == [kind |-> "None"]

----------------------------------------------------------------------------
(* Bounds of the model *)

MaxChunks == 6
MaxStep == 4

(* Values the setters are called with (0 exercises their assertions). *)
ScreenArgs == {<<1920, 1080>>, <<960, 1080>>, <<480, 500>>, <<0, 1080>>}
StepArgs == 0..MaxStep
WidthChunkArgs == {0, 480, 500, 960}
PicHArgs == {0, 200}
TextUpHArgs == {0, 900}
SwipSpeedArgs == {0, 7}
SaveNames == {"result.mp4"}
InitialDirs == {{}, {"old.txt"}}

----------------------------------------------------------------------------
(* u32 arithmetic on <<hi, lo>> pairs *)

Half == 2 ^ 16

U32(n) == <<n \div Half, n % Half>>

U32Lt(a, b) == a[1] < b[1] \/ (a[1] = b[1] /\ a[2] < b[2])

\* a - b modulo 2^32
WrappingSub(a, b) ==
    LET borrow == IF a[2] < b[2] THEN 1 ELSE 0
        lo == a[2] - b[2] + borrow * Half
        hi == (a[1] - b[1] - borrow) % Half
    IN <<hi, lo>>

\* a + b modulo 2^32, and whether the true sum needs more than 32 bits
WrappingAdd(a, b) ==
    LET lo == a[2] + b[2]
        hi == a[1] + b[1] + (lo \div Half)
    IN <<hi % Half, lo % Half>>

AddOverflows(a, b) == a[1] + b[1] + ((a[2] + b[2]) \div Half) >= Half

\* s * a modulo 2^32 for a multiplier s < 2^15, and whether it overflows
WrappingMul(s, a) ==
    LET lo == s * a[2]
        hi == s * a[1] + (lo \div Half)
    IN <<hi % Half, lo % Half>>

MulOverflows(s, a) == s * a[1] + ((s * a[2]) \div Half) >= Half

Min(a, b) == IF a <= b THEN a ELSE b

----------------------------------------------------------------------------
(* Results *)

Ok(v) == [kind |-> "Ok", msg |-> "", val |-> v]
Err(m) == [kind |-> "Err", msg |-> m, val |-> NoValue]
Panic(m) == [kind |-> "Panic", msg |-> m, val |-> NoValue]

\* the result handed on without a panic
ExpectLenient(r, m) == r

\* Result::expect
Expect(r, m) == IF r.kind = "Err" THEN Panic(m) ELSE r

----------------------------------------------------------------------------
(* BigImgBuilder *)

BuilderNew ==
    [screen |-> <<1920, 1080>>,
     step |-> 100,
     width_chunk |-> 480,
     pic_h |-> 520,
     text_up_h |-> 214,
     video_cover_time |-> 3,
     video_ending_time |-> 3,
     video_swip_speed |-> 3]

\* the step stored without clamping
ClampStepNone(step, n) == step

\* the step stored by build(): self.step.min(chunks.len())
ClampStep(step, n) == Min(step, n)

\* the validations without the picture-height test
BuildCheckNoPicH(b, n) ==
    IF n = 0 THEN Err("chunks data is empty")
    ELSE IF b.screen[1] % b.width_chunk # 0 THEN Err("width_screen % width_chunk != 0")
    ELSE Ok(NoValue)

\* build(): the three validations, in source order
BuildCheck(b, n) ==
    IF n = 0 THEN Err("chunks data is empty")
    ELSE IF b.pic_h > b.screen[2] THEN Err("pic_h > height_screen")
    ELSE IF b.screen[1] % b.width_chunk # 0 THEN Err("width_screen % width_chunk != 0")
    ELSE Ok(NoValue)

\* build(): the validations, then the fields of the struct literal in
\* source order (text_down_h is evaluated before the font is loaded).
Build(b, n, font, checks) ==
    IF BuildCheck(b, n).kind # "Ok" THEN BuildCheck(b, n)
    ELSE
      LET rest == U32(b.screen[2] - b.pic_h)
          up == U32(b.text_up_h)
      IN IF U32Lt(rest, up) /\ checks THEN Panic("attempt to subtract with overflow")
         ELSE IF ~font THEN Err("font")
         ELSE Ok([nchunks |-> n,
                  screen |-> b.screen,
                  step |-> ClampStep(b.step, n),
                  width_chunk |-> b.width_chunk,
                  overlap |-> b.screen[1] \div b.width_chunk,
                  pic_h |-> b.pic_h,
                  text_up_h |-> b.text_up_h,
                  text_down_h |-> WrappingSub(rest, up),
                  video_cover_time |-> b.video_cover_time,
                  video_ending_time |-> b.video_ending_time,
                  video_swip_speed |-> b.video_swip_speed])

\* build() stores the clamped step in the builder once the three checks passed
BuilderAfterBuild(b, n) ==
    IF BuildCheck(b, n).kind # "Ok" THEN b
    ELSE [b EXCEPT !.step = ClampStep(b.step, n)]

\* BigImg::new
New(n, font, checks) == Expect(Build(BuilderNew, n, font, checks), "BigImg new failed")

----------------------------------------------------------------------------
(* Paths *)

Digits == <<"0", "1", "2", "3", "4", "5", "6", "7", "8", "9">>

RECURSIVE IndexString(_)
IndexString(n) == IF n < 10 THEN Digits[n + 1]
               ELSE IndexString(n \div 10) \o Digits[(n % 10) + 1]

\* format!("{index:0>2}"): right-aligned in a field of two, filled with '0'
Pad2(n) == IF Len(IndexString(n)) < 2 THEN "0" \o IndexString(n) ELSE IndexString(n)

PathOf(stem, ext) == [stem |-> stem, ext |-> ext]
WithExtension(p, ext) == [p EXCEPT !.ext = ext]
PathStr(p) == p.stem \o "." \o p.ext

CoverPicName == PathOf("cover", "png")
EndingPicName == PathOf("ending", "png")
MidPicName(i) == PathOf(Pad2(i), "png")
ListFile == "list.txt"

----------------------------------------------------------------------------
(* divide *)

\* chunks[lo..hi] as the sequence of chunk positions lo+1 .. hi
Slice(lo, hi, n) ==
    IF lo > hi \/ hi > n THEN Panic("slice index out of range")
    ELSE Ok([k \in 1..(hi - lo) |-> lo + k])

\* divide with the windows laid end to end (stride = step)
RECURSIVE DivideFromNoOverlap(_, _, _, _, _)
DivideFromNoOverlap(i, end, stride, step, len) ==
    IF i >= end THEN <<>>
    ELSE <<[lo |-> i, hi |-> Min(i + step, len)]>>
         \o DivideFromNoOverlap(i + step, end, stride, step, len)

\* (i..end).step_by(stride).map(|i| [i, min(i + step, len)))
RECURSIVE DivideFrom(_, _, _, _, _)
DivideFrom(i, end, stride, step, len) ==
    IF i >= end THEN <<>>
    ELSE <<[lo |-> i, hi |-> Min(i + step, len)]>>
         \o DivideFrom(i + stride, end, stride, step, len)

\* divide(): the range end `len - overlap` (usize, 64 bits) is evaluated
\* first, then the stride `step - overlap` (u32), then step_by, then the
\* eager collect of the mapped slices.
Divide(im, checks) ==
    LET len == im.nchunks
        step == im.step
        overlap == im.overlap
    IN IF len < overlap
       THEN \* checked: the subtraction panics.  Wrapping: step <= len makes the
            \* stride wrap too; the range then yields 0 and next an index
            \* 2^32 - (overlap - step) > len below the wrapped end, whose slice panics.
            IF checks THEN Panic("attempt to subtract with overflow")
            ELSE Panic("slice index starts past the end")
       ELSE IF step < overlap
       THEN \* wrapping: the stride 2^32 - (overlap - step) exceeds the range,
            \* which therefore yields at most the index 0
            IF checks THEN Panic("attempt to subtract with overflow")
            ELSE Ok(IF 0 < len - overlap
                    THEN <<[lo |-> 0, hi |-> Min(step, len)]>>
                    ELSE <<>>)
       ELSE IF step = overlap
       THEN Panic("assertion failed: step != 0")
       ELSE Ok(DivideFrom(0, len - overlap, step - overlap, step, len))

----------------------------------------------------------------------------
(* The working directory and the external effects *)

\* one external effect: what was attempted, on which file, and whether it succeeded
Effect(op, name, arg, ok) == [op |-> op, name |-> name, arg |-> arg, ok |-> ok]

RenderOutcomes == {"ok", "draw_err", "save_err"}
FfmpegOutcomes == {"ok", "launch_err", "exit_err"}

\* Chunk::draw_data: one cell bitmap
DrawData(im) == [w |-> im.width_chunk, h |-> im.screen[2]]

\* GenericImage::copy_from succeeds iff the source fits at (x, y)
CopyFits(target, cell, x, y) ==
    x + cell.w <= target.w /\ y + cell.h <= target.h

\* combain_chunk without the test for an empty slice
CombainChunkUnguarded(im, fs, lg, chunk, save_path, ro) ==
    LET len == Len(chunk)
        target == [w |-> len * im.width_chunk, h |-> im.screen[2]]
        cells == [i \in 1..len |->
                    [chunk |-> chunk[i], x |-> (i - 1) * im.width_chunk, y |-> 0]]
        still == [w |-> target.w, h |-> target.h, cells |-> cells]
    IN IF ro = "draw_err" \/ ro = "save_err"
       THEN [ret |-> Err("image"), files |-> fs,
             log |-> Append(lg, Effect("render", PathStr(save_path), still, FALSE))]
       ELSE [ret |-> Ok(NoValue),
             files |-> fs \cup {PathStr(save_path)},
             log |-> Append(lg, Effect("render", PathStr(save_path), still, TRUE))]

\* combain_chunk: returns [ret, files, log]
CombainChunk(im, fs, lg, chunk, save_path, ro) ==
    IF chunk = <<>>
    THEN [ret |-> Err("Empty chunk"), files |-> fs, log |-> lg]
    ELSE
      LET len == Len(chunk)
          target == [w |-> len * im.width_chunk, h |-> im.screen[2]]
          cells == [i \in 1..len |->
                      [chunk |-> chunk[i], x |-> (i - 1) * im.width_chunk, y |-> 0]]
          fits == \A i \in 1..len : CopyFits(target, DrawData(im), cells[i].x, cells[i].y)
          still == [w |-> target.w, h |-> target.h, cells |-> cells]
      IN IF ro = "draw_err" \/ ~fits \/ ro = "save_err"
         THEN [ret |-> Err("image"), files |-> fs,
               log |-> Append(lg, Effect("render", PathStr(save_path), still, FALSE))]
         ELSE [ret |-> Ok(NoValue),
               files |-> fs \cup {PathStr(save_path)},
               log |-> Append(lg, Effect("render", PathStr(save_path), still, TRUE))]

\* ffmpeg() without the test of the exit status
FfmpegUnchecked(fs, lg, mode, out, arg, fo) ==
    [ret |-> IF fo = "launch_err" THEN Err("io") ELSE Ok(NoValue),
     files |-> IF fo = "launch_err" THEN fs ELSE fs \cup {out},
     log |-> Append(lg, Effect(mode, out, arg, fo = "ok"))]

\* ffmpeg(): spawn failure or a non-zero exit status is an Err; a run that
\* exits non-zero may have created its output file already
Ffmpeg(fs, lg, mode, out, arg, fo) ==
    [ret |-> IF fo = "ok" THEN Ok(NoValue)
             ELSE IF fo = "launch_err" THEN Err("io")
             ELSE Err("FFmpeg command failed"),
     files |-> IF fo = "launch_err" THEN fs ELSE fs \cup {out},
     log |-> Append(lg, Effect(mode, out, arg, fo = "ok"))]

\* generate_endpoint_video: returns [ret, files, log], ret.val the clip path
GenerateEndpointVideo(im, fs, lg, chunk, pic_name, video_time, ro, fo) ==
    LET video_name == WithExtension(pic_name, "mp4")
        c == CombainChunk(im, fs, lg, chunk, pic_name, ro)
    IN IF c.ret.kind # "Ok" THEN c
       ELSE LET f == Ffmpeg(c.files, c.log, "endpoint", PathStr(video_name),
                            [t |-> U32(video_time), still |-> PathStr(pic_name)], fo)
            IN IF f.ret.kind # "Ok" THEN f
               ELSE [f EXCEPT !.ret = Ok(video_name)]

\* generate_mid_video: returns [ret, files, log], ret.val the clip path
GenerateMidVideo(im, fs, lg, chunk, pic_name, ro, fo, checks) ==
    LET c == CombainChunk(im, fs, lg, chunk, pic_name, ro)
        video_name == WithExtension(pic_name, "mp4")
        len == U32(Len(chunk))
        overlap == U32(im.overlap)
        adjust_len == WrappingSub(len, overlap)
        product == WrappingMul(im.video_swip_speed, adjust_len)
        run_seconds == WrappingAdd(product, U32(1))
    IN IF c.ret.kind # "Ok" THEN c
       ELSE IF checks /\ U32Lt(len, overlap)
       THEN [c EXCEPT !.ret = Panic("attempt to subtract with overflow")]
       ELSE IF checks /\ MulOverflows(im.video_swip_speed, adjust_len)
       THEN [c EXCEPT !.ret = Panic("attempt to multiply with overflow")]
       ELSE IF checks /\ AddOverflows(product, U32(1))
       THEN [c EXCEPT !.ret = Panic("attempt to add with overflow")]
       ELSE IF im.video_swip_speed = 0
       THEN [c EXCEPT !.ret = Panic("attempt to divide by zero")]
       ELSE LET speed == im.width_chunk \div im.video_swip_speed
                f == Ffmpeg(c.files, c.log, "scroll", PathStr(video_name),
                            [t |-> run_seconds, speed |-> speed,
                             still |-> PathStr(pic_name), n |-> Len(chunk)], fo)
            IN IF f.ret.kind # "Ok" THEN f
               ELSE [f EXCEPT !.ret = Ok(video_name)]

\* the manifest with the clips in reverse order
ManifestOfReversed(rs) == [k \in 1..Len(rs) |-> "file " \o PathStr(rs[Len(rs) + 1 - k])]

\* the manifest text: one line "file <clip>" per result
ManifestOf(rs) == [k \in 1..Len(rs) |-> "file " \o PathStr(rs[k])]

----------------------------------------------------------------------------
(* Initial state: the chunk slice is loaded, nothing is constructed yet *)

Init ==
    /\ overflow_checks \in BOOLEAN
    /\ font_ok \in BOOLEAN
    /\ nchunks \in 0..MaxChunks
    /\ pc = "start"
    /\ builder = NoValue
    /\ req_step = 0
    /\ build_ret = NoValue
    /\ new_ret = NoValue
    /\ img = NoValue
    /\ windows = <<>>
    /\ results = <<>>
    /\ index = 0
    /\ files = {}
    /\ manifest = NoValue
    /\ log = <<>>
    /\ dir0 = {}
    /\ save_name = ""
    /\ ret = NoValue

Outcome(r) == [kind |-> r.kind, msg |-> r.msg]

RunVars == <<windows, results, index, files, manifest, log, dir0, save_name, ret>>
CfgVars == <<builder, req_step, build_ret, new_ret, img>>

----------------------------------------------------------------------------
(* Construction *)

\* BigImgBuilder::new / BigImg::builder
BigImgBuilderNew ==
    /\ pc = "start"
    /\ builder' = BuilderNew
    /\ pc' = "config"
    /\ UNCHANGED <<overflow_checks, font_ok, nchunks, req_step, build_ret, new_ret, img, RunVars>>

\* BigImg::new
BigImgNew ==
    /\ pc = "start"
    /\ LET b == Build(BuilderNew, nchunks, font_ok, overflow_checks)
           r == New(nchunks, font_ok, overflow_checks)
       IN   /\ req_step' = BuilderNew.step
            /\ build_ret' = Outcome(b)
            /\ new_ret' = Outcome(r)
            /\ img' = r.val
            /\ pc' = IF r.kind = "Ok" THEN "built" ELSE "panic"
    /\ UNCHANGED <<overflow_checks, font_ok, nchunks, builder, RunVars>>

\* a setter whose assertion `ok` guards the assignment
Setter(ok, b) ==
    /\ pc = "config"
    /\ IF ok THEN builder' = b /\ pc' = "config"
             ELSE builder' = builder /\ pc' = "panic"
    /\ UNCHANGED <<overflow_checks, font_ok, nchunks, req_step, build_ret, new_ret, img, RunVars>>

SetScreen ==
    \E v \in ScreenArgs :
        Setter(v[1] # 0 /\ v[2] # 0, [builder EXCEPT !.screen = v])

SetStep ==
    \E v \in StepArgs : Setter(v # 0, [builder EXCEPT !.step = v])

SetWidthChunk ==
    \E v \in WidthChunkArgs : Setter(v # 0, [builder EXCEPT !.width_chunk = v])

SetPicH ==
    \E v \in PicHArgs : Setter(v # 0, [builder EXCEPT !.pic_h = v])

SetTextUpH ==
    \E v \in TextUpHArgs : Setter(v # 0, [builder EXCEPT !.text_up_h = v])

SetVideoSwipSpeed ==
    \E v \in SwipSpeedArgs : Setter(TRUE, [builder EXCEPT !.video_swip_speed = v])

\* BigImgBuilder::build
BuildAct ==
    /\ pc = "config"
    /\ LET r == Build(builder, nchunks, font_ok, overflow_checks)
       IN   /\ req_step' = builder.step
            /\ builder' = BuilderAfterBuild(builder, nchunks)
            /\ build_ret' = Outcome(r)
            /\ img' = r.val
            /\ pc' = IF r.kind = "Ok" THEN "built"
                     ELSE IF r.kind = "Err" THEN "build_err" ELSE "panic"
    /\ UNCHANGED <<overflow_checks, font_ok, nchunks, new_ret, RunVars>>

----------------------------------------------------------------------------
(* combain, one action per fallible step *)

Finish(r, next) ==
    /\ ret' = IF r.kind = "Ok" THEN ret ELSE Outcome(r)
    /\ pc' = IF r.kind = "Ok" THEN next
             ELSE IF r.kind = "Err" THEN "error" ELSE "panic"

\* entry of combain: let chunks = self.divide()
DivideAct ==
    /\ pc = "built"
    /\ \E d \in InitialDirs, s \in SaveNames :
         LET r == Divide(img, overflow_checks)
         IN /\ dir0' = d
            /\ files' = d
            /\ save_name' = s
            /\ windows' = IF r.kind = "Ok" THEN r.val ELSE <<>>
            /\ Finish(r, "cover")
    /\ UNCHANGED <<overflow_checks, font_ok, nchunks, CfgVars, results, index, manifest, log>>

\* the cover segment from chunks[..overlap]
CoverAct ==
    /\ pc = "cover"
    /\ LET sl == Slice(0, img.overlap, img.nchunks)
       IN IF sl.kind # "Ok"
          THEN Finish(sl, "mid") /\ UNCHANGED <<files, log, results>>
          ELSE \E ro \in RenderOutcomes, fo \in FfmpegOutcomes :
                 LET g == GenerateEndpointVideo(img, files, log, sl.val, CoverPicName,
                                                img.video_cover_time, ro, fo)
                 IN /\ files' = g.files
                    /\ log' = g.log
                    /\ results' = IF g.ret.kind = "Ok" THEN Append(results, g.ret.val)
                                  ELSE results
                    /\ Finish(g.ret, "mid")
    /\ index' = 0
    /\ UNCHANGED <<overflow_checks, font_ok, nchunks, CfgVars, windows, manifest, dir0, save_name>>

\* one iteration of the loop over the windows
MidAct ==
    /\ pc = "mid"
    /\ index < Len(windows)
    /\ LET w == windows[index + 1]
           sl == Slice(w.lo, w.hi, img.nchunks)
       IN \E ro \in RenderOutcomes, fo \in FfmpegOutcomes :
            LET g == GenerateMidVideo(img, files, log, sl.val, MidPicName(index),
                                      ro, fo, overflow_checks)
            IN /\ files' = g.files
               /\ log' = g.log
               /\ results' = IF g.ret.kind = "Ok" THEN Append(results, g.ret.val)
                             ELSE results
               /\ index' = IF g.ret.kind = "Ok" THEN index + 1 ELSE index
               /\ Finish(g.ret, "mid")
    /\ UNCHANGED <<overflow_checks, font_ok, nchunks, CfgVars, windows, manifest, dir0, save_name>>

\* after the loop: the ending segment from chunks[len - overlap..]
EndingAct ==
    /\ pc = "mid"
    /\ index = Len(windows)
    /\ LET sl == Slice(img.nchunks - img.overlap, img.nchunks, img.nchunks)
       IN \E ro \in RenderOutcomes, fo \in FfmpegOutcomes :
            LET g == GenerateEndpointVideo(img, files, log, sl.val, EndingPicName,
                                           img.video_ending_time, ro, fo)
            IN /\ files' = g.files
               /\ log' = g.log
               /\ results' = IF g.ret.kind = "Ok" THEN Append(results, g.ret.val)
                             ELSE results
               /\ Finish(g.ret, "manifest")
    /\ UNCHANGED <<overflow_checks, font_ok, nchunks, CfgVars, windows, index, manifest, dir0, save_name>>

\* std::fs::write(list.txt, result_str)?
ManifestAct ==
    /\ pc = "manifest"
    /\ \E ok \in BOOLEAN :
         IF ok
         THEN /\ files' = files \cup {ListFile}
              /\ manifest' = ManifestOf(results)
              /\ log' = Append(log, Effect("write", ListFile, ManifestOf(results), TRUE))
              /\ Finish(Ok(NoValue), "concat")
         ELSE /\ UNCHANGED <<files, manifest>>
              /\ log' = Append(log, Effect("write", ListFile, ManifestOf(results), FALSE))
              /\ Finish(Err("io"), "concat")
    /\ UNCHANGED <<overflow_checks, font_ok, nchunks, CfgVars, windows, results, index, dir0, save_name>>

\* ffmpeg -f concat -i list.txt -c copy -y save_name
ConcatAct ==
    /\ pc = "concat"
    /\ \E fo \in FfmpegOutcomes :
         LET f == Ffmpeg(files, log, "concat", save_name, [list |-> ListFile], fo)
         IN /\ files' = f.files
            /\ log' = f.log
            /\ Finish(f.ret, "cleanup")
    /\ UNCHANGED <<overflow_checks, font_ok, nchunks, CfgVars, windows, results, index, manifest, dir0, save_name>>

\* the paths the cleanup loop removes
ResultNames(rs) == {PathStr(rs[k]) : k \in 1..Len(rs)}

CleanupTargets(rs) == ResultNames(rs)

\* for result in results { let _ = remove_file(..) }; Ok(())
CleanupAct ==
    /\ pc = "cleanup"
    /\ \E failed \in SUBSET CleanupTargets(results) :
         /\ files' = files \ (CleanupTargets(results) \ failed)
         /\ log' = log \o [k \in 1..Len(results) |->
                             Effect("remove", PathStr(results[k]), NoValue,
                                    PathStr(results[k]) \notin failed)]
    /\ ret' = Outcome(Ok(NoValue))
    /\ pc' = "done"
    /\ UNCHANGED <<overflow_checks, font_ok, nchunks, CfgVars, windows, results, index, manifest, dir0, save_name>>

\* combain_chunk called on its own with any sub-slice of the chunks
CombainChunkCall ==
    /\ pc = "built"
    /\ \E lo \in 0..nchunks, hi \in 0..nchunks, d \in InitialDirs, ro \in RenderOutcomes :
         /\ lo <= hi
         /\ LET c == CombainChunk(img, d, <<>>, Slice(lo, hi, nchunks).val,
                                  PathOf("still", "png"), ro)
            IN /\ dir0' = d
               /\ files' = c.files
               /\ log' = c.log
               /\ ret' = Outcome(c.ret)
               /\ index' = hi - lo
    /\ pc' = "chunk_done"
    /\ UNCHANGED <<overflow_checks, font_ok, nchunks, CfgVars, windows, results, manifest, save_name>>

Next ==
    \/ BigImgBuilderNew
    \/ BigImgNew
    \/ SetScreen
    \/ SetStep
    \/ SetWidthChunk
    \/ SetPicH
    \/ SetTextUpH
    \/ SetVideoSwipSpeed
    \/ BuildAct
    \/ DivideAct
    \/ CoverAct
    \/ MidAct
    \/ EndingAct
    \/ ManifestAct
    \/ ConcatAct
    \/ CleanupAct
    \/ CombainChunkCall

Spec == Init /\ [][Next]_vars

----------------------------------------------------------------------------
(* Properties *)

\* divide() has returned its windows to combain
DivideReturned == pc \in {"cover", "mid", "manifest", "concat", "cleanup", "done", "error"}

ChunkSeq == [k \in 1..nchunks |-> k]

WindowSlice(w) == [k \in 1..(w.hi - w.lo) |-> w.lo + k]

\* the first window followed by every later window without its first `overlap` chunks
RECURSIVE Reconstruct(_, _, _)
Reconstruct(ws, k, overlap) ==
    IF k > Len(ws) THEN <<>>
    ELSE (IF k = 1 THEN WindowSlice(ws[k])
          ELSE SubSeq(WindowSlice(ws[k]), overlap + 1, Len(WindowSlice(ws[k]))))
         \o Reconstruct(ws, k + 1, overlap)

\* C1: for an effective step greater than overlap the windows of divide are
\* slices of the chunk sequence, the first starting at 0, the last ending at
\* len, consecutive ones sharing exactly `overlap` chunks, and the first
\* window followed by the later ones without their first `overlap` chunks is
\* the chunk sequence; 5 chunks, step 3, overlap 2 give [0,3), [1,4), [2,5).
C1_DivideWindows ==
    (DivideReturned /\ img.step > img.overlap) =>
        /\ Len(windows) >= 1
        /\ windows[1].lo = 0
        /\ windows[Len(windows)].hi = img.nchunks
        /\ \A k \in 1..Len(windows) :
              /\ 0 <= windows[k].lo
              /\ windows[k].lo < windows[k].hi
              /\ windows[k].hi <= img.nchunks
              /\ windows[k].hi - windows[k].lo <= img.step
        /\ \A k \in 1..(Len(windows) - 1) :
              /\ windows[k].lo < windows[k + 1].lo
              /\ windows[k + 1].lo = windows[k].hi - img.overlap
              /\ windows[k + 1].hi - windows[k + 1].lo >= img.overlap
        /\ Reconstruct(windows, 1, img.overlap) = ChunkSeq
        /\ (img.nchunks = 5 /\ img.step = 3 /\ img.overlap = 2) =>
              windows = <<[lo |-> 0, hi |-> 3], [lo |-> 1, hi |-> 4], [lo |-> 2, hi |-> 5]>>

\* the example of C1: 5 chunks, step 3, overlap 2, three windows
C1_Witness ==
    /\ DivideReturned
    /\ img.nchunks = 5 /\ img.step = 3 /\ img.overlap = 2
    /\ Len(windows) = 3

\* C2: with len <= overlap, divide at the start of combain fails: combain
\* never continues past it, neither with an empty window list nor with a
\* window, and never completes a video without mid segments.
C2_TooFewChunksFails ==
    /\ (img # NoValue /\ img.nchunks <= img.overlap) => ~DivideReturned
    /\ DivideReturned => Len(windows) >= 1


\* build() was called on the builder and the builder is still at hand
BuildCalled == builder # NoValue /\ build_ret # NoValue

\* the three conditions the specification lists for a failing build
ListedBuildErrors ==
    \/ nchunks = 0
    \/ builder.pic_h > builder.screen[2]
    \/ builder.screen[1] % builder.width_chunk # 0

\* the subtraction H - pic_h - text_up_h of the struct literal goes below zero
TextDownUnderflows == builder.pic_h + builder.text_up_h > builder.screen[2]

\* C3 as stated: build returns an error iff the chunk list is empty,
\* pic_h > H or W % chunk_width != 0, and returns a BigImg otherwise.
C3_BuildFailsIffListed ==
    BuildCalled =>
        /\ build_ret.kind = "Err" <=> ListedBuildErrors
        /\ ~ListedBuildErrors => build_ret.kind = "Ok"

\* C3 amended: build returns an error iff one of the three listed conditions
\* holds or, none of them holding and the evaluation of text_down_h not
\* panicking, the font cannot be loaded; it panics iff none of the three
\* holds, pic_h + text_up_h > H and overflow checks are on; in every other
\* case it returns a BigImg.
C3_BuildFailsIffListedOrFont ==
    BuildCalled =>
        LET panics == ~ListedBuildErrors /\ TextDownUnderflows /\ overflow_checks
        IN /\ build_ret.kind = "Err" <=> (ListedBuildErrors \/ (~panics /\ ~font_ok))
           /\ build_ret.kind = "Panic" <=> panics
           /\ build_ret.kind = "Ok" <=> (~ListedBuildErrors /\ ~panics /\ font_ok)
           /\ build_ret.kind = "Ok" <=> img # NoValue

\* build rejected a configuration that passes the three validations
C3_Witness ==
    /\ BuildCalled
    /\ ~ListedBuildErrors
    /\ ~font_ok
    /\ build_ret.kind = "Err"

\* C4: a combain run in which every step and every deletion succeeded,
\* started in an empty working directory, ends with the output file as the
\* only file of the working directory.
C4_OnlyOutputRemains ==
    (pc = "done" /\ dir0 = {} /\ files \cap CleanupTargets(results) = {}) =>
        files = {save_name}

\* effects of combain other than the deletions of the cleanup loop
IsStep(e) == e.op # "remove"

\* the files produced for the cover and for the mid segments 0 .. k-1
RECURSIVE MidFiles(_)
MidFiles(k) ==
    IF k = 0 THEN {}
    ELSE MidFiles(k - 1) \cup {Pad2(k - 1) \o ".png", Pad2(k - 1) \o ".mp4"}

MidClipNames == <<"00.mp4", "01.mp4", "02.mp4", "03.mp4", "04.mp4",
                  "05.mp4", "06.mp4", "07.mp4", "08.mp4", "09.mp4">>
MidStillNames == <<"00.png", "01.png", "02.png", "03.png", "04.png",
                   "05.png", "06.png", "07.png", "08.png", "09.png">>

\* <<op, file>> of the effects of a run in which nothing fails, up to the concat
RECURSIVE MidPlan(_, _)
MidPlan(k, m) ==
    IF k > m THEN <<>>
    ELSE <<(<<"render", MidStillNames[k]>>), (<<"scroll", MidClipNames[k]>>)>>
         \o MidPlan(k + 1, m)

Plan(m, out) ==
    <<(<<"render", "cover.png">>), (<<"endpoint", "cover.mp4">>)>>
    \o MidPlan(1, m)
    \o <<(<<"render", "ending.png">>), (<<"endpoint", "ending.mp4">>),
         (<<"write", "list.txt">>), (<<"concat", out>>)>>

Steps(lg) == SelectSeq(lg, IsStep)

\* C6: the segments are produced in the order cover, mid 0 .. m-1 (window k
\* composed from the k-th window of divide), ending; list.txt is written
\* only after all m+2 clips were encoded successfully and holds exactly the
\* m+2 lines `file <clip>` in that order; the concat comes after the write.
C6_ProductionOrder ==
    (DivideReturned /\ pc # "chunk_done") =>
        LET m == Len(windows)
            st == Steps(log)
            plan == Plan(m, save_name)
        IN /\ Len(st) <= Len(plan)
           /\ \A k \in 1..Len(st) : <<st[k].op, st[k].name>> = plan[k]
           /\ \A k \in 1..m :
                 2 * k + 1 <= Len(st) =>
                    [i \in 1..Len(st[2 * k + 1].arg.cells) |-> st[2 * k + 1].arg.cells[i].chunk]
                        = WindowSlice(windows[k])
           /\ \A k \in 1..Len(st) :
                 st[k].op = "write" => \A j \in 1..(k - 1) : st[j].ok
           /\ manifest # NoValue =>
                 /\ Len(manifest) = m + 2
                 /\ manifest[1] = "file cover.mp4"
                 /\ \A k \in 1..m : manifest[k + 1] = "file " \o MidClipNames[k]
                 /\ manifest[m + 2] = "file ending.mp4"
                 /\ Len(st) >= 2 * m + 5
           /\ \A k \in 1..Len(st) :
                 st[k].op = "concat" => (manifest # NoValue /\ k = 2 * m + 6)

\* a complete run with at least two mid segments
C6_Witness ==
    /\ pc = "done"
    /\ Len(windows) >= 2
    /\ Len(manifest) = Len(windows) + 2

\* C7: every encoder call for a mid segment gets the duration
\* swipe_speed * (windowLen - overlap) + 1, with windowLen - overlap >= 1
\* and no wrap-around in the computation.
C7_ScrollDuration ==
    \A k \in 1..Len(log) :
        log[k].op = "scroll" =>
            /\ log[k].arg.n - img.overlap >= 1
            /\ log[k].arg.t = U32(img.video_swip_speed * (log[k].arg.n - img.overlap) + 1)

C9_ComposedStill ==
    /\ (pc = "chunk_done" /\ index = 0) =>
          /\ ret = [kind |-> "Err", msg |-> "Empty chunk"]
          /\ files = dir0
          /\ log = <<>>
    /\ (pc = "chunk_done" /\ index >= 1) =>
          /\ Len(log) = 1
          /\ Len(log[1].arg.cells) = index
          /\ ret.kind = "Ok" <=> log[1].ok
          /\ ret.kind = "Ok" <=> files = dir0 \cup {"still.png"}
    /\ \A k \in 1..Len(log) :
          log[k].op = "render" =>
              LET still == log[k].arg
                  n == Len(still.cells)
              IN /\ n >= 1
                 /\ still.w = n * img.width_chunk
                 /\ still.h = img.screen[2]
                 /\ \A i \in 1..n : still.cells[i].x = (i - 1) * img.width_chunk
                                     /\ still.cells[i].y = 0
                 /\ \A i, j \in 1..n : i < j => still.cells[i].chunk < still.cells[j].chunk
    /\ pc # "chunk_done" => ret # [kind |-> "Err", msg |-> "Empty chunk"]

\* combain_chunk was called directly with an empty slice
C9_Witness ==
    /\ pc = "chunk_done"
    /\ index = 0
    /\ ret.kind = "Err"

C11_TextDownHeight ==
    build_ret.kind = "Ok" =>
        /\ img.pic_h + img.text_up_h <= img.screen[2]
        /\ img.text_down_h = U32(img.screen[2] - img.pic_h - img.text_up_h)
        /\ img.text_down_h[1] = 0
        /\ img.pic_h + img.text_up_h + img.text_down_h[2] = img.screen[2]

\* C12: for every window of n > overlap chunks and a swipe speed >= 1 the
\* pan speed given to the encoder times the pan time
\* swipe_speed * (n - overlap) is (n - overlap) * chunk_width.
C12_ScrollContinuity ==
    \A k \in 1..Len(log) :
        (log[k].op = "scroll" /\ log[k].arg.n > img.overlap /\ img.video_swip_speed >= 1) =>
            log[k].arg.speed * (img.video_swip_speed * (log[k].arg.n - img.overlap))
                = (log[k].arg.n - img.overlap) * img.width_chunk

====
